---- MODULE Spec2Model ----
(***************************************************************************)
(* Ray Train run-state reporter (TrainRunStateManager.register_train_run)  *)
(* and the Lightning checkpoint relay (RayModelCheckpoint).                *)
(*                                                                         *)
(* Python lists are 0-based; a list is modelled as a sequence whose        *)
(* position i+1 holds list element i.                                      *)
(***************************************************************************)
EXTENDS Integers, Sequences, FiniteSets

\* Largest worker group (len(worker_group)) of a registration.
MaxWorkers == 3

\* Largest number of datasets handed to register_train_run.
MaxDatasets == 1

VARIABLES
    \* ---- run-state reporter ----
    worker_group,     \* seq of worker contexts, position i+1 = worker index i
    datasets,         \* seq of dataset names (the dict's items, in order)
    futures,          \* seq of [state, value]: the ObjectRefs of the fan-out
    calls,            \* seq of Nat: execute_single_async calls per worker index
    reg_pc,           \* position of the register_train_run call
    outcome,          \* how register_train_run ended: none / returned / raised
    error_log,        \* number of logger.error lines written
    actor_inbox,      \* register_train_run messages in flight to the actor
    actor_runs,       \* RunInfos the registry actor has processed
    sent_log,         \* history: every message sent, with the futures' states
    \* ---- checkpoint relay (one RayModelCheckpoint per worker process) ----
    session,          \* seq of session contexts, position p = world rank p-1
    strategy,         \* class of trainer.strategy
    last_model_kind,  \* what last_model_path names: file / dir / missing
    schedule,         \* the callback events every process goes through
    pos,              \* per process: number of schedule events completed
    pc,               \* per process: position inside the current callback
    is_checkpoint_step, \* per process: the callback's pending flag
    is_report_rank,   \* per process: the callback's elected-rank flag
    stage,            \* per process: stage argument of the running report
    barrier_count,    \* per process: barriers entered
    report_count,     \* per process: session.report calls made
    tmpdir,           \* per process: name of the open temporary directory, or 0
    fs,               \* temporary directories: name -> directory record
    report_log,       \* history: every session.report call
    wrote_since,      \* history: a checkpoint write since setup / last report
    \* ---- cluster-environment shim (one per worker process) ----
    env,              \* the environment object: its class and cached fields
    live,             \* what the runtime's session reports right now
    rank_zero_only_rank, \* the library's rank_zero_only.rank gate
    last_read,        \* the last reader call: function, result, session value
    \* ---- configuration and loading calls ----
    call,             \* the call under way: operation and arguments
    result            \* its outcome, or "pending"

regVars == <<worker_group, datasets, futures, calls, reg_pc, outcome,
             error_log, actor_inbox, actor_runs, sent_log>>

relayVars == <<session, strategy, last_model_kind, schedule, pos, pc,
               is_checkpoint_step, is_report_rank, stage, barrier_count,
               report_count, tmpdir, fs, report_log, wrote_since>>

envVars == <<env, live, rank_zero_only_rank, last_read>>

callVars == <<call, result>>

vars == <<regVars, relayVars, envVars, callVars>>

-----------------------------------------------------------------------------
\* Helpers on the cluster topology (values the runtime's contexts return).

Max(S) == CHOOSE x \in S : \A y \in S : y <= x

\* Bijections index -> world rank.
RankPermutations(n) ==
    {f \in [0..n-1 -> 0..n-1] : \A a, b \in 0..n-1 : f[a] = f[b] => a = b}

\* Node of every world rank, nodes numbered in order of first appearance.
NodeAssignments(n) ==
    {f \in [0..n-1 -> 0..n-1] :
        /\ f[0] = 0
        /\ \A r \in 1..n-1 : f[r] <= Max({f[q] : q \in 0..r-1}) + 1}

\* Local rank: position of the worker among the workers of its node.
LocalRankOf(node_of, r) ==
    Cardinality({q \in DOMAIN node_of : q < r /\ node_of[q] = node_of[r]})

\* The context of worker `index`: what ray.train.get_context() and the
\* runtime context return inside that worker process.
WorkerContext(index, rank_of, node_of) ==
    LET r == rank_of[index] IN
    [world_rank |-> r,
     local_rank |-> LocalRankOf(node_of, r),
     node_rank  |-> node_of[r],
     actor_id   |-> index,
     node_id    |-> node_of[r],
     node_ip    |-> node_of[r],
     gpu_ids    |-> <<LocalRankOf(node_of, r)>>,
     pid        |-> index]

WorkerGroups ==
    UNION {
        { [i \in 1..n |-> WorkerContext(i - 1, rank_of, node_of)] :
            rank_of \in RankPermutations(n), node_of \in NodeAssignments(n) }
        : n \in 1..MaxWorkers }

DatasetNames == <<"train", "valid", "test", "extra">>

DatasetDicts == { SubSeq(DatasetNames, 1, k) : k \in 0..MaxDatasets }

-----------------------------------------------------------------------------
\* The run-state reporter.

\* The body of the remote function: a TrainWorkerInfo snapshot of the worker.
collect_train_worker_info(ctx) ==
    [world_rank |-> ctx.world_rank,
     local_rank |-> ctx.local_rank,
     node_rank  |-> ctx.node_rank,
     actor_id   |-> ctx.actor_id,
     node_id    |-> ctx.node_id,
     node_ip    |-> ctx.node_ip,
     gpu_ids    |-> ctx.gpu_ids,
     pid        |-> ctx.pid]

NoValue == [world_rank |-> -1]

\* sorted(list, key=world_rank): stable insertion into an ascending list.
RECURSIVE InsertByRank(_, _)
InsertByRank(info, s) ==
    IF s = <<>> THEN <<info>>
    ELSE IF Head(s).world_rank <= info.world_rank
         THEN <<Head(s)>> \o InsertByRank(info, Tail(s))
         ELSE <<info>> \o s

\* Variant: the list is left in worker-index order.
sorted_skipped(s) == s

RECURSIVE sorted_by_world_rank(_)
sorted_by_world_rank(s) ==
    IF s = <<>> THEN <<>>
    ELSE InsertByRank(s[Len(s)], sorted_by_world_rank(SubSeq(s, 1, Len(s) - 1)))

\* TrainDatasetInfo of every item of the datasets dict.
dataset_info_list(ds) ==
    [k \in 1..Len(ds) |->
        [name |-> ds[k], plan_name |-> ds[k], plan_uuid |-> k]]

\* check_for_failure(futures): blocks until every future resolved or one
\* failed; success iff none failed.
check_for_failure_ready(futs) ==
    \/ \A k \in 1..Len(futs) : futs[k].state # "pending"
    \/ \E k \in 1..Len(futs) : futs[k].state = "failed"

check_for_failure_success(futs) ==
    \A k \in 1..Len(futs) : futs[k].state = "ok"

RegInit ==
    /\ worker_group \in WorkerGroups
    /\ datasets \in DatasetDicts
    /\ futures = <<>>
    /\ calls = [k \in 1..Len(worker_group) |-> 0]
    /\ reg_pc = "start"
    /\ outcome = "none"
    /\ error_log = 0
    /\ actor_inbox = <<>>
    /\ actor_runs = <<>>
    /\ sent_log = <<>>

\* register_train_run, up to the wait: one execute_single_async per index.
register_train_run_submit ==
    /\ reg_pc = "start"
    /\ futures' = [k \in 1..Len(worker_group) |->
                      [state |-> "pending", value |-> NoValue]]
    /\ calls' = [k \in 1..Len(worker_group) |-> calls[k] + 1]
    /\ reg_pc' = "waiting"
    /\ UNCHANGED <<worker_group, datasets, outcome, error_log, actor_inbox,
                   actor_runs, sent_log>>

\* Worker `index` runs collect_train_worker_info and its future resolves.
worker_collects(k) ==
    /\ k \in 1..Len(futures)
    /\ futures[k].state = "pending"
    /\ futures' = [futures EXCEPT ![k] =
          [state |-> "ok", value |-> collect_train_worker_info(worker_group[k])]]
    /\ UNCHANGED <<worker_group, datasets, calls, reg_pc, outcome, error_log,
                   actor_inbox, actor_runs, sent_log>>

\* Worker `index` fails: its future resolves to an error.
worker_fails(k) ==
    /\ k \in 1..Len(futures)
    /\ futures[k].state = "pending"
    /\ futures' = [futures EXCEPT ![k] = [state |-> "failed", value |-> NoValue]]
    /\ UNCHANGED <<worker_group, datasets, calls, reg_pc, outcome, error_log,
                   actor_inbox, actor_runs, sent_log>>

\* The RunInfo built from the resolved futures (run id, name and trainer
\* actor id are the call's arguments, fixed here).
train_run_info(futs, ds) ==
    [id |-> "run", name |-> "name", trainer_actor_id |-> "trainer",
     workers  |-> sorted_by_world_rank([k \in 1..Len(futs) |-> futs[k].value]),
     datasets |-> dataset_info_list(ds)]

\* Variant: on a failure the report is built from the workers that succeeded.
register_train_run_partial ==
    /\ reg_pc = "waiting"
    /\ check_for_failure_ready(futures)
    /\ ~check_for_failure_success(futures)
    /\ LET ok == SelectSeq(futures, LAMBDA f : f.state = "ok")
           info == train_run_info(ok, datasets) IN
        /\ actor_inbox' = Append(actor_inbox, info)
        /\ sent_log' = Append(sent_log,
              [info |-> info,
               states |-> [k \in 1..Len(futures) |-> futures[k].state]])
    /\ error_log' = error_log + 1
    /\ outcome' = "returned"
    /\ reg_pc' = "done"
    /\ UNCHANGED <<worker_group, datasets, futures, calls, actor_runs>>

\* Variant: the failure is raised to the caller instead of being logged.
register_train_run_reraise ==
    /\ reg_pc = "waiting"
    /\ check_for_failure_ready(futures)
    /\ ~check_for_failure_success(futures)
    /\ outcome' = "raised"
    /\ reg_pc' = "done"
    /\ UNCHANGED <<worker_group, datasets, futures, calls, error_log,
                   actor_inbox, actor_runs, sent_log>>

\* register_train_run after check_for_failure: a failure is logged and the
\* call returns.
register_train_run_failed ==
    /\ reg_pc = "waiting"
    /\ check_for_failure_ready(futures)
    /\ ~check_for_failure_success(futures)
    /\ error_log' = error_log + 1
    /\ outcome' = "returned"
    /\ reg_pc' = "done"
    /\ UNCHANGED <<worker_group, datasets, futures, calls, actor_inbox,
                   actor_runs, sent_log>>

\* Variant: the RunInfo is sent a second time.
register_train_run_send_twice ==
    /\ reg_pc = "waiting"
    /\ check_for_failure_ready(futures)
    /\ check_for_failure_success(futures)
    /\ LET info == train_run_info(futures, datasets)
           entry == [info |-> info,
                     states |-> [k \in 1..Len(futures) |-> futures[k].state]] IN
        /\ actor_inbox' = actor_inbox \o <<info, info>>
        /\ sent_log' = sent_log \o <<entry, entry>>
    /\ outcome' = "returned"
    /\ reg_pc' = "done"
    /\ UNCHANGED <<worker_group, datasets, futures, calls, error_log,
                   actor_runs>>

\* register_train_run after check_for_failure: on success the RunInfo is
\* built and sent with .remote(), and the call returns.
register_train_run_send ==
    /\ reg_pc = "waiting"
    /\ check_for_failure_ready(futures)
    /\ check_for_failure_success(futures)
    /\ LET info == train_run_info(futures, datasets) IN
        /\ actor_inbox' = Append(actor_inbox, info)
        /\ sent_log' = Append(sent_log,
              [info |-> info,
               states |-> [k \in 1..Len(futures) |-> futures[k].state]])
    /\ outcome' = "returned"
    /\ reg_pc' = "done"
    /\ UNCHANGED <<worker_group, datasets, futures, calls, error_log,
                   actor_runs>>

\* The registry actor processes a register_train_run message.
state_actor_register_train_run ==
    /\ actor_inbox # <<>>
    /\ actor_runs' = Append(actor_runs, Head(actor_inbox))
    /\ actor_inbox' = Tail(actor_inbox)
    /\ UNCHANGED <<worker_group, datasets, futures, calls, reg_pc, outcome,
                   error_log, sent_log>>

\* In the registration's specification no relay is running.
RelayOff ==
    /\ session = <<>>
    /\ strategy = "none"
    /\ last_model_kind = "missing"
    /\ schedule = <<>>
    /\ pos = <<>>
    /\ pc = <<>>
    /\ is_checkpoint_step = <<>>
    /\ is_report_rank = <<>>
    /\ stage = <<>>
    /\ barrier_count = <<>>
    /\ report_count = <<>>
    /\ tmpdir = <<>>
    /\ fs = <<>>
    /\ report_log = {}
    /\ wrote_since = <<>>

\* No environment shim is in use.
EnvOff ==
    /\ env = "none"
    /\ live = "none"
    /\ rank_zero_only_rank = 0
    /\ last_read = "none"

\* No configuration or loading call is under way.
CallOff ==
    /\ call = "none"
    /\ result = "none"

InitRegister == RegInit /\ RelayOff /\ EnvOff /\ CallOff

NextRegister ==
    \/ register_train_run_submit /\ UNCHANGED <<relayVars, envVars, callVars>>
    \/ \E k \in 1..MaxWorkers : worker_collects(k) /\ UNCHANGED <<relayVars, envVars, callVars>>
    \/ \E k \in 1..MaxWorkers : worker_fails(k) /\ UNCHANGED <<relayVars, envVars, callVars>>
    \/ register_train_run_failed /\ UNCHANGED <<relayVars, envVars, callVars>>
    \/ register_train_run_send /\ UNCHANGED <<relayVars, envVars, callVars>>
    \/ state_actor_register_train_run /\ UNCHANGED <<relayVars, envVars, callVars>>

SpecRegister == InitRegister /\ [][NextRegister]_vars

-----------------------------------------------------------------------------
\* Properties of the run-state reporter.

AnyFutureFailed == \E k \in 1..Len(futures) : futures[k].state = "failed"

AllFuturesOk ==
    /\ Len(futures) = Len(worker_group)
    /\ \A k \in 1..Len(futures) : futures[k].state = "ok"

IsSortedByWorldRank(ws) ==
    \A i \in 1..Len(ws) - 1 : ws[i].world_rank <= ws[i + 1].world_rank

\* Every message the caller has sent, in flight or processed.
AllMessages == actor_runs \o actor_inbox

\* C1: every RunInfo sent by register_train_run has exactly one WorkerInfo per
\* worker index of the group (N entries) and its workers list is sorted
\* ascending by world_rank, whatever the order of ranks over indices.
C1_WorkersSortedAndComplete ==
    \A m \in 1..Len(AllMessages) :
        LET ws == AllMessages[m].workers IN
        /\ Len(ws) = Len(worker_group)
        /\ IsSortedByWorldRank(ws)
        /\ \A i \in 1..Len(worker_group) :
              Cardinality({j \in 1..Len(ws) : ws[j].actor_id = i - 1}) = 1
        /\ \A j \in 1..Len(ws) :
              ws[j] = collect_train_worker_info(worker_group[ws[j].actor_id + 1])

\* A report of a three-worker group whose ranks run against the indices.
C1_Witness ==
    /\ Len(worker_group) = 3
    /\ worker_group[1].world_rank = 2
    /\ worker_group[3].world_rank = 0
    /\ Len(AllMessages) = 1

\* C2: once the identity-collection future of any worker has failed, no
\* register_train_run message is sent to the registry actor, neither in
\* flight nor processed: no partial report.
C2_NoMessageAfterFailure ==
    AnyFutureFailed =>
        /\ sent_log = <<>>
        /\ actor_inbox = <<>>
        /\ actor_runs = <<>>

\* The call is over, one worker failed and another one succeeded.
C2_Witness ==
    /\ reg_pc = "done"
    /\ AnyFutureFailed
    /\ \E k \in 1..Len(futures) : futures[k].state = "ok"

\* C9: when a worker's identity collection failed, register_train_run ends by
\* returning (one error line logged, nothing raised), and no worker index is
\* ever called more than once; at the end each index was called exactly once.
C9_FailureLoggedNoRetry ==
    /\ \A k \in 1..Len(calls) : calls[k] <= 1
    /\ (reg_pc = "done" /\ AnyFutureFailed) =>
          /\ outcome = "returned"
          /\ error_log = 1
          /\ \A k \in 1..Len(calls) : calls[k] = 1

\* The call is over after the failure of worker index 1 of a group of three.
C9_Witness ==
    /\ reg_pc = "done"
    /\ Len(worker_group) = 3
    /\ futures[2].state = "failed"
    /\ outcome = "returned"

\* C10: at most one register_train_run message is ever sent; it is sent only
\* when every worker future has resolved successfully; a successful call has
\* sent exactly one when it returns; and the RunInfo in flight or held by the
\* actor is the one that was sent.
C10_SentOnceAfterAllResolved ==
    /\ Len(sent_log) <= 1
    /\ \A m \in 1..Len(sent_log) :
          /\ Len(sent_log[m].states) = Len(worker_group)
          /\ \A k \in 1..Len(sent_log[m].states) : sent_log[m].states[k] = "ok"
    /\ (reg_pc = "done" /\ AllFuturesOk) =>
          /\ Len(sent_log) = 1
          /\ outcome = "returned"
    /\ AllMessages = [m \in 1..Len(sent_log) |-> sent_log[m].info]

\* The successful call has returned while its message is still unprocessed.
C10_Witness ==
    /\ reg_pc = "done"
    /\ outcome = "returned"
    /\ Len(actor_inbox) = 1
    /\ actor_runs = <<>>
    /\ Len(worker_group) = 2

-----------------------------------------------------------------------------
\* The checkpoint relay: RayModelCheckpoint in every worker process.

\* Largest number of worker processes (ranks) running the relay.
MaxRanks == 2

\* Largest number of callback events after the first setup.
MaxEvents == 3

Strategies == {"RayDDPStrategy", "RayFSDPStrategy", "RayDeepSpeedStrategy"}

\* isinstance(trainer.strategy, DeepSpeedStrategy)
IsDeepSpeedStrategy(s) == s = "RayDeepSpeedStrategy"

Hooks == {"train_batch_end", "train_epoch_end", "validation_end"}

Events == {"setup", "save"} \cup Hooks

\* Every process sees the same events; the first is the strategy setup, the
\* others come in any order. A "save" is a call of _save_last_checkpoint by
\* the library, which may happen inside the library's part of a hook.
Schedules ==
    UNION { { <<"setup">> \o t : t \in [1..k -> Events] } : k \in 0..MaxEvents }

\* The session contexts of an n-process job, position p = world rank p-1.
Sessions ==
    UNION {
        { [p \in 1..n |->
              WorkerContext(p - 1, [i \in 0..n-1 |-> i], node_of)] :
            node_of \in NodeAssignments(n) }
        : n \in 1..MaxRanks }

Procs == DOMAIN session

MODEL_KEY == "model"

NoDir == [exists |-> FALSE, owner |-> 0, files |-> {}, reports |-> 0]

\* The event process p is at, or "end" when its training loop is over.
EventOf(p) == IF pos[p] < Len(schedule) THEN schedule[pos[p] + 1] ELSE "end"

\* Variant: global rank 0 is elected whatever the strategy.
elect_global_rank_zero(strat, ctx) == ctx.world_rank = 0

\* setup(): which rank reports the checkpoint.
elect_report_rank(strat, ctx) ==
    IF IsDeepSpeedStrategy(strat)
    THEN ctx.local_rank = 0
    ELSE ctx.world_rank = 0

\* Variant: the guard is missing, every hook reports.
should_report_always(p) == TRUE

\* _session_report's guard: report only at a checkpoint step.
should_report(p) == is_checkpoint_step[p] = TRUE

\* Variant: every rank copies the checkpoint.
copied_files_every_rank(report_rank, kind) ==
    IF kind = "dir" THEN {[name |-> MODEL_KEY, kind |-> "dir"]}
    ELSE IF kind = "file" THEN {[name |-> MODEL_KEY, kind |-> "file"]}
    ELSE {}

\* What the copy puts into the temporary directory.
copied_files(report_rank, kind) ==
    IF report_rank = TRUE
    THEN IF kind = "dir" THEN {[name |-> MODEL_KEY, kind |-> "dir"]}
         ELSE IF kind = "file" THEN {[name |-> MODEL_KEY, kind |-> "file"]}
         ELSE {}
    ELSE {}

\* Variant: the barrier is not called.
barrier_not_called(p) == TRUE

\* trainer.strategy.barrier() lets a process through once every process
\* has entered the barrier as often as it has.
barrier_open(p) == \A q \in Procs : barrier_count[q] >= barrier_count[p]

\* session.report returns once every process has made the report of this
\* round (the result channel takes one result per rank and round).
session_report_unblocked(p) ==
    \A q \in Procs : report_count[q] >= report_count[p]

\* The two flags are attributes that setup creates; no handler reads them
\* before setup, the first event of every schedule, so FALSE stands for the
\* attribute that does not exist yet.
RelayInit ==
    /\ session \in Sessions
    /\ strategy \in Strategies
    /\ last_model_kind \in {"file", "dir", "missing"}
    /\ schedule \in Schedules
    /\ pos = [p \in Procs |-> 0]
    /\ pc = [p \in Procs |-> "idle"]
    /\ is_checkpoint_step = [p \in Procs |-> FALSE]
    /\ is_report_rank = [p \in Procs |-> FALSE]
    /\ stage = [p \in Procs |-> "none"]
    /\ barrier_count = [p \in Procs |-> 0]
    /\ report_count = [p \in Procs |-> 0]
    /\ tmpdir = [p \in Procs |-> 0]
    /\ fs = [d \in Procs |-> NoDir]
    /\ report_log = {}
    /\ wrote_since = [p \in Procs |-> FALSE]

\* RayModelCheckpoint.setup
setup(p) ==
    /\ pc[p] = "idle"
    /\ EventOf(p) = "setup"
    /\ is_checkpoint_step' = [is_checkpoint_step EXCEPT ![p] = FALSE]
    /\ is_report_rank' =
          [is_report_rank EXCEPT ![p] = elect_report_rank(strategy, session[p])]
    /\ wrote_since' = [wrote_since EXCEPT ![p] = FALSE]
    /\ pos' = [pos EXCEPT ![p] = pos[p] + 1]
    /\ UNCHANGED <<session, strategy, last_model_kind, schedule, pc, stage,
                   barrier_count, report_count, tmpdir, fs, report_log>>

\* Variant: only the reporting rank marks the checkpoint step.
save_last_checkpoint_report_rank_only(p) ==
    /\ pc[p] = "idle"
    /\ EventOf(p) = "save"
    /\ is_checkpoint_step' =
          [is_checkpoint_step EXCEPT ![p] = (is_report_rank[p] = TRUE)]
    /\ wrote_since' = [wrote_since EXCEPT ![p] = TRUE]
    /\ pos' = [pos EXCEPT ![p] = pos[p] + 1]
    /\ UNCHANGED <<session, strategy, last_model_kind, schedule, pc,
                   is_report_rank, stage, barrier_count, report_count, tmpdir,
                   fs, report_log>>

\* _save_last_checkpoint: the library writes the checkpoint, then the
\* callback marks the checkpoint step.
save_last_checkpoint(p) ==
    /\ pc[p] = "idle"
    /\ EventOf(p) = "save"
    /\ is_checkpoint_step' = [is_checkpoint_step EXCEPT ![p] = TRUE]
    /\ wrote_since' = [wrote_since EXCEPT ![p] = TRUE]
    /\ pos' = [pos EXCEPT ![p] = pos[p] + 1]
    /\ UNCHANGED <<session, strategy, last_model_kind, schedule, pc,
                   is_report_rank, stage, barrier_count, report_count, tmpdir,
                   fs, report_log>>

\* The metrics of a report.

LIGHTNING_REPORT_STAGE_KEY == "_report_on"

\* Names of monitored metrics.
MetricKeys == {"loss", "acc"}

\* Values of monitor candidates: tensors of one or two elements, plain
\* Python numbers and other objects.  `item` is the number held (the first
\* element of a tensor).
MetricValues ==
    {[type |-> "Tensor", numel |-> n, item |-> i] : n \in {1, 2}, i \in {0, 1}}
        \cup {[type |-> "float", numel |-> 1, item |-> i] : i \in {0, 1}}
        \cup {[type |-> "str", numel |-> 1, item |-> 0]}

\* trainer's monitor candidates: a dict from metric names to values.
MonitorCandidates ==
    UNION {[keys -> MetricValues] : keys \in SUBSET MetricKeys}

\* isinstance(v, torch.Tensor)
is_tensor(v) == v.type = "Tensor"

\* v.item() raises unless the tensor has exactly one element.
item_raises(v) == v.numel # 1

\* The keys the loop copies into metrics: those holding a tensor.
kept_keys(candidates) ==
    {k \in DOMAIN candidates : is_tensor(candidates[k])}

\* metrics = {LIGHTNING_REPORT_STAGE_KEY: stage}; then for every candidate
\* that is a tensor, metrics[k] = v.item().  A raising item() ends the call.
metrics(stg, candidates) ==
    IF \E k \in kept_keys(candidates) : item_raises(candidates[k])
    THEN [status |-> "raised", error |-> "item"]
    ELSE [status |-> "ok",
          metrics |-> [k \in {LIGHTNING_REPORT_STAGE_KEY} \cup kept_keys(candidates) |->
                          IF k = LIGHTNING_REPORT_STAGE_KEY
                          THEN stg
                          ELSE candidates[k].item]]

\* _session_report up to the barrier: return at once when no checkpoint is
\* pending, else collect the metrics from the trainer's monitor candidates
\* and enter the barrier. When reading a metric raises, the exception leaves
\* the handler before the barrier, with the pending flag still set.
session_report(p, stg, candidates) ==
    /\ pc[p] = "idle"
    /\ IF ~should_report(p)
       THEN /\ pos' = [pos EXCEPT ![p] = pos[p] + 1]
            /\ UNCHANGED <<stage, barrier_count, pc>>
       ELSE IF metrics(stg, candidates).status = "raised"
       THEN /\ pc' = [pc EXCEPT ![p] = "raised"]
            /\ UNCHANGED <<stage, barrier_count, pos>>
       ELSE /\ stage' = [stage EXCEPT ![p] = stg]
            /\ barrier_count' = [barrier_count EXCEPT ![p] = barrier_count[p] + 1]
            /\ pc' = [pc EXCEPT ![p] = "barrier"]
            /\ pos' = pos
    /\ UNCHANGED <<session, strategy, last_model_kind, schedule,
                   is_checkpoint_step, is_report_rank, report_count, tmpdir,
                   fs, report_log, wrote_since>>

on_train_batch_end(p) ==
    /\ EventOf(p) = "train_batch_end"
    /\ \E candidates \in MonitorCandidates :
          session_report(p, "train_batch_end", candidates)

on_train_epoch_end(p) ==
    /\ EventOf(p) = "train_epoch_end"
    /\ \E candidates \in MonitorCandidates :
          session_report(p, "train_epoch_end", candidates)

on_validation_end(p) ==
    /\ EventOf(p) = "validation_end"
    /\ \E candidates \in MonitorCandidates :
          session_report(p, "validation_end", candidates)

\* tempfile.TemporaryDirectory(): a new directory under a name no existing
\* directory has (names are interchangeable: the least free one is taken).
mkdtemp(d) ==
    /\ d \in DOMAIN fs
    /\ ~fs[d].exists
    /\ \A e \in DOMAIN fs : e < d => fs[e].exists

\* _session_report: the barrier lets the process through and the temporary
\* directory is created.
barrier_pass(p) ==
    /\ pc[p] = "barrier"
    /\ barrier_open(p)
    /\ \E d \in DOMAIN fs :
        /\ mkdtemp(d)
        /\ fs' = [fs EXCEPT ![d] =
              [exists |-> TRUE, owner |-> p, files |-> {}, reports |-> 0]]
        /\ tmpdir' = [tmpdir EXCEPT ![p] = d]
    /\ pc' = [pc EXCEPT ![p] = "tmpdir"]
    /\ UNCHANGED <<session, strategy, last_model_kind, schedule, pos,
                   is_checkpoint_step, is_report_rank, stage, barrier_count,
                   report_count, report_log, wrote_since>>

\* Leaving the with-block deletes the temporary directory.
cleanup(p) ==
    /\ fs' = [fs EXCEPT ![tmpdir[p]] = NoDir]
    /\ tmpdir' = [tmpdir EXCEPT ![p] = 0]

\* Variant: only the reporting rank calls session.report; the other ranks
\* leave the with-block without a report.
copy_and_report_rank_only(p) ==
    /\ pc[p] = "tmpdir"
    /\ IF is_report_rank[p] = TRUE
       THEN /\ LET d == tmpdir[p]
                   files == copied_files(is_report_rank[p], last_model_kind) IN
                /\ fs' = [fs EXCEPT ![d].files = files,
                                    ![d].reports = fs[d].reports + 1]
                /\ report_log' = report_log \cup
                      {[proc |-> p, stage |-> stage[p], dir |-> d,
                        files |-> files, round |-> report_count[p] + 1]}
            /\ report_count' = [report_count EXCEPT ![p] = report_count[p] + 1]
            /\ wrote_since' = [wrote_since EXCEPT ![p] = FALSE]
            /\ pc' = [pc EXCEPT ![p] = "report"]
            /\ UNCHANGED <<pos, is_checkpoint_step, stage, tmpdir>>
       ELSE /\ cleanup(p)
            /\ is_checkpoint_step' = [is_checkpoint_step EXCEPT ![p] = FALSE]
            /\ stage' = [stage EXCEPT ![p] = "none"]
            /\ pc' = [pc EXCEPT ![p] = "idle"]
            /\ pos' = [pos EXCEPT ![p] = pos[p] + 1]
            /\ UNCHANGED <<report_log, report_count, wrote_since>>
    /\ UNCHANGED <<session, strategy, last_model_kind, schedule,
                   is_report_rank, barrier_count>>

\* _session_report: the reporting rank copies the checkpoint, the directory
\* is wrapped as a checkpoint and session.report is called with it.
copy_and_report(p) ==
    /\ pc[p] = "tmpdir"
    /\ LET d == tmpdir[p]
           files == copied_files(is_report_rank[p], last_model_kind) IN
        /\ fs' = [fs EXCEPT ![d].files = files,
                            ![d].reports = fs[d].reports + 1]
        /\ report_log' = report_log \cup
              {[proc |-> p, stage |-> stage[p], dir |-> d, files |-> files,
                round |-> report_count[p] + 1]}
    /\ report_count' = [report_count EXCEPT ![p] = report_count[p] + 1]
    /\ wrote_since' = [wrote_since EXCEPT ![p] = FALSE]
    /\ pc' = [pc EXCEPT ![p] = "report"]
    /\ UNCHANGED <<session, strategy, last_model_kind, schedule, pos,
                   is_checkpoint_step, is_report_rank, stage, barrier_count,
                   tmpdir>>

\* _session_report: the copy raises; the with-block is left by the exception.
copy_raises(p) ==
    /\ pc[p] = "tmpdir"
    /\ is_report_rank[p] = TRUE
    /\ last_model_kind # "missing"
    /\ cleanup(p)
    /\ pc' = [pc EXCEPT ![p] = "raised"]
    /\ UNCHANGED <<session, strategy, last_model_kind, schedule, pos,
                   is_checkpoint_step, is_report_rank, stage, barrier_count,
                   report_count, report_log, wrote_since>>

\* Variant: session.report returns and the pending flag is left set.
report_returns_keeps_flag(p) ==
    /\ pc[p] = "report"
    /\ session_report_unblocked(p)
    /\ cleanup(p)
    /\ stage' = [stage EXCEPT ![p] = "none"]
    /\ pc' = [pc EXCEPT ![p] = "idle"]
    /\ pos' = [pos EXCEPT ![p] = pos[p] + 1]
    /\ UNCHANGED <<session, strategy, last_model_kind, schedule,
                   is_checkpoint_step, is_report_rank, barrier_count,
                   report_count, report_log, wrote_since>>

\* _session_report: session.report returns, the with-block ends and the
\* pending flag is cleared.
report_returns(p) ==
    /\ pc[p] = "report"
    /\ session_report_unblocked(p)
    /\ cleanup(p)
    /\ is_checkpoint_step' = [is_checkpoint_step EXCEPT ![p] = FALSE]
    /\ stage' = [stage EXCEPT ![p] = "none"]
    /\ pc' = [pc EXCEPT ![p] = "idle"]
    /\ pos' = [pos EXCEPT ![p] = pos[p] + 1]
    /\ UNCHANGED <<session, strategy, last_model_kind, schedule,
                   is_report_rank, barrier_count, report_count, report_log,
                   wrote_since>>

\* Variant: the directory is removed on the normal path only; an exception
\* of session.report leaves it behind.
report_raises_leaks(p) ==
    /\ pc[p] = "report"
    /\ pc' = [pc EXCEPT ![p] = "raised"]
    /\ UNCHANGED <<session, strategy, last_model_kind, schedule, pos,
                   is_checkpoint_step, is_report_rank, stage, barrier_count,
                   report_count, tmpdir, fs, report_log, wrote_since>>

\* _session_report: session.report raises; the with-block is left by the
\* exception and the flag is not cleared.
report_raises(p) ==
    /\ pc[p] = "report"
    /\ cleanup(p)
    /\ pc' = [pc EXCEPT ![p] = "raised"]
    /\ UNCHANGED <<session, strategy, last_model_kind, schedule, pos,
                   is_checkpoint_step, is_report_rank, stage, barrier_count,
                   report_count, report_log, wrote_since>>

\* In the relay's specification no registration is running.
RegisterOff ==
    /\ worker_group = <<>>
    /\ datasets = <<>>
    /\ futures = <<>>
    /\ calls = <<>>
    /\ reg_pc = "off"
    /\ outcome = "none"
    /\ error_log = 0
    /\ actor_inbox = <<>>
    /\ actor_runs = <<>>
    /\ sent_log = <<>>

InitRelay == RelayInit /\ RegisterOff /\ EnvOff /\ CallOff

NextRelay ==
    \/ \E p \in Procs : setup(p) /\ UNCHANGED <<regVars, envVars, callVars>>
    \/ \E p \in Procs : save_last_checkpoint(p) /\ UNCHANGED <<regVars, envVars, callVars>>
    \/ \E p \in Procs : on_train_batch_end(p) /\ UNCHANGED <<regVars, envVars, callVars>>
    \/ \E p \in Procs : on_train_epoch_end(p) /\ UNCHANGED <<regVars, envVars, callVars>>
    \/ \E p \in Procs : on_validation_end(p) /\ UNCHANGED <<regVars, envVars, callVars>>
    \/ \E p \in Procs : barrier_pass(p) /\ UNCHANGED <<regVars, envVars, callVars>>
    \/ \E p \in Procs : copy_and_report(p) /\ UNCHANGED <<regVars, envVars, callVars>>
    \/ \E p \in Procs : copy_raises(p) /\ UNCHANGED <<regVars, envVars, callVars>>
    \/ \E p \in Procs : report_returns(p) /\ UNCHANGED <<regVars, envVars, callVars>>
    \/ \E p \in Procs : report_raises(p) /\ UNCHANGED <<regVars, envVars, callVars>>

SpecRelay == InitRelay /\ [][NextRelay]_vars

-----------------------------------------------------------------------------
\* Properties of the checkpoint relay.

InWithBlock == {"tmpdir", "report"}

\* _save_last_checkpoint calls process p has completed.
SavesDone(p) == Cardinality({i \in 1..pos[p] : schedule[i] = "save"})

AllDone == \A p \in Procs : pc[p] = "idle" /\ pos[p] = Len(schedule)

NoneRaised == \A p \in Procs : pc[p] # "raised"

AllSetUp == \A p \in Procs : pos[p] >= 1

ReportRanks == {p \in Procs : is_report_rank[p] = TRUE}

Nodes == {session[p].node_rank : p \in Procs}

ProcsOn(node) == {p \in Procs : session[p].node_rank = node}

\* C3: a process is on the reporting path of a hook (at the barrier or
\* about to report) only if a checkpoint write happened since its setup and
\* since its previous report; it never enters the barrier or reports more
\* often than it has written, so not at all before the first write.
C3_ReportOnlyAfterWrite ==
    \A p \in Procs :
        /\ pc[p] \in {"barrier", "tmpdir"} => wrote_since[p]
        /\ barrier_count[p] <= SavesDone(p)
        /\ report_count[p] <= SavesDone(p)

\* A hook fired before any write (no report), then a write and a hook that
\* reported.
C3_Witness ==
    \E p \in Procs :
        /\ Len(schedule) >= 4
        /\ schedule[2] \in Hooks
        /\ schedule[3] = "save"
        /\ schedule[4] \in Hooks
        /\ pos[p] = 4
        /\ report_count[p] = 1

\* C4: in every report, a temporary directory that holds anything belongs to
\* the elected reporting rank and holds just the model under the fixed key;
\* the directory of every other rank is empty when reported (and at any time).
C4_OnlyReportRankHasModel ==
    /\ \A r \in report_log :
          /\ r.files # {} =>
                /\ is_report_rank[r.proc] = TRUE
                /\ r.files = {[name |-> MODEL_KEY, kind |-> last_model_kind]}
          /\ is_report_rank[r.proc] # TRUE => r.files = {}
          /\ (is_report_rank[r.proc] = TRUE /\ last_model_kind # "missing")
                => r.files # {}
    /\ \A d \in DOMAIN fs :
          (fs[d].exists /\ is_report_rank[fs[d].owner] # TRUE)
              => fs[d].files = {}

\* One round in which the reporting rank reported the model and another rank
\* reported an empty placeholder.
C4_Witness ==
    \E r1, r2 \in report_log :
        /\ r1.round = r2.round
        /\ is_report_rank[r1.proc] = TRUE
        /\ r1.files # {}
        /\ is_report_rank[r2.proc] = FALSE
        /\ r2.files = {}

\* Strategies that replicate the model on every worker, and strategies that
\* shard it over the workers.
ReplicatedStrategies == {"RayDDPStrategy"}

ShardedStrategies == {"RayFSDPStrategy", "RayDeepSpeedStrategy"}

OnePerJob ==
    /\ Cardinality(ReportRanks) = 1
    /\ \A p \in ReportRanks : session[p].world_rank = 0

OnePerNode ==
    \A node \in Nodes :
        /\ Cardinality(ReportRanks \cap ProcsOn(node)) = 1
        /\ \A p \in ReportRanks \cap ProcsOn(node) : session[p].local_rank = 0

\* C5 as stated: after setup, replicated strategies have one reporting rank
\* in the job (world rank 0), sharded strategies one per node (local rank 0).
C5_Original ==
    AllSetUp =>
        /\ strategy \in ReplicatedStrategies => OnePerJob
        /\ strategy \in ShardedStrategies => OnePerNode

\* C5 amended: after setup, a DeepSpeed strategy has one reporting rank per
\* node (local rank 0); every other strategy, the sharded FSDP included, has
\* one reporting rank in the job (world rank 0).
C5_ElectedReportRank ==
    AllSetUp =>
        /\ IsDeepSpeedStrategy(strategy) => OnePerNode
        /\ ~IsDeepSpeedStrategy(strategy) => OnePerJob

\* A DeepSpeed job on two nodes, set up: two reporting ranks.
C5_Witness ==
    /\ AllSetUp
    /\ IsDeepSpeedStrategy(strategy)
    /\ Cardinality(Nodes) = 2
    /\ Cardinality(ReportRanks) = 2

\* The reports a process makes over a schedule: one at every hook that
\* follows a write made since the last setup or report.
RECURSIVE ExpectedReports(_, _)
ExpectedReports(sched, pending) ==
    IF sched = <<>> THEN 0
    ELSE LET e == Head(sched) IN
         IF e = "setup" THEN ExpectedReports(Tail(sched), FALSE)
         ELSE IF e = "save" THEN ExpectedReports(Tail(sched), TRUE)
         ELSE IF pending THEN 1 + ExpectedReports(Tail(sched), FALSE)
         ELSE ExpectedReports(Tail(sched), FALSE)

\* A step of the relay other than an exception.
RelayProgress ==
    \E p \in Procs :
        /\ \/ setup(p)
           \/ save_last_checkpoint(p)
           \/ on_train_batch_end(p)
           \/ on_train_epoch_end(p)
           \/ on_validation_end(p)
           \/ barrier_pass(p)
           \/ copy_and_report(p)
           \/ report_returns(p)
        /\ UNCHANGED <<regVars, envVars, callVars>>

\* C6: every rank, reporting or not, makes one session.report call at every
\* checkpoint event: at the end of a run all ranks have made the same number
\* of calls, one per event; a rank waiting in session.report waits only for
\* ranks that are on their way to the same report; and unless a rank raised,
\* some rank can always go on until all are done.
C6_EveryRankReports ==
    /\ AllDone =>
          \A p \in Procs : report_count[p] = ExpectedReports(schedule, FALSE)
    /\ \A p, q \in Procs :
          (pc[p] = "idle" /\ pc[q] = "idle" /\ pos[p] = pos[q])
              => report_count[p] = report_count[q]
    /\ NoneRaised =>
          \A p, q \in Procs :
              (pc[p] = "report" /\ report_count[q] < report_count[p])
                  => (pos[q] < pos[p] \/ pc[q] \in {"barrier", "tmpdir"})
    /\ (NoneRaised /\ ~AllDone) => ENABLED RelayProgress

\* A finished run of two ranks, one of them not the reporting rank, with a
\* checkpoint event.
C6_Witness ==
    /\ AllDone
    /\ Cardinality(Procs) = 2
    /\ \E p \in Procs : is_report_rank[p] = FALSE
    /\ \A p \in Procs : report_count[p] >= 1

\* C7: while a process is past the barrier of a checkpoint event (copying
\* or reporting), every process has entered the barrier of that event, and
\* so has completed every event before the hook, its checkpoint writes
\* included.
C7_BarrierBeforeCopy ==
    \A p \in Procs :
        pc[p] \in InWithBlock =>
            \A q \in Procs :
                /\ barrier_count[q] >= barrier_count[p]
                /\ pos[q] >= pos[p]

\* The reporting rank is about to copy while the other rank is still at the
\* barrier it has entered.
C7_Witness ==
    \E p, q \in Procs :
        /\ pc[p] = "tmpdir"
        /\ is_report_rank[p] = TRUE
        /\ pc[q] = "barrier"

\* C8: the temporary directory of a report exists while the process is in
\* the with-block (so during session.report); a process outside
\* _session_report's with-block - returned or left by an exception - holds
\* none and no directory is left behind; a directory has one owner and is
\* used for one report.
C8_TmpDirLifetime ==
    /\ \A p \in Procs :
          IF pc[p] \in InWithBlock
          THEN /\ tmpdir[p] \in DOMAIN fs
               /\ fs[tmpdir[p]].exists
               /\ fs[tmpdir[p]].owner = p
          ELSE tmpdir[p] = 0
    /\ \A d \in DOMAIN fs :
          fs[d].exists =>
              /\ fs[d].owner \in Procs
              /\ tmpdir[fs[d].owner] = d
              /\ fs[d].reports <= 1
              /\ pc[fs[d].owner] = "report" <=> fs[d].reports = 1
    /\ \A p, q \in Procs :
          (p # q /\ tmpdir[p] # 0) => tmpdir[p] # tmpdir[q]

\* session.report raised in one process and returned in another; no
\* directory is left.
C8_Witness ==
    \E p, q \in Procs :
        /\ pc[p] = "raised"
        /\ report_count[p] = 1
        /\ pc[q] = "idle"
        /\ report_count[q] = 1
        /\ \A d \in DOMAIN fs : ~fs[d].exists

-----------------------------------------------------------------------------
\* The cluster-environment shim: RayLightningEnvironment (lightning_utils.py)
\* and RayEnvironment (_lightning_utils.py), one object in one worker.

\* Largest world size of the session.
MaxWorld == 3

EnvClasses == {"RayLightningEnvironment", "RayEnvironment"}

\* What the session reports to a worker: the world size and a rank below it.
LiveSessions ==
    {s \in [world_size : 1..MaxWorld, world_rank : 0..MaxWorld - 1] :
        s.world_rank < s.world_size}

\* A field of the environment object that no setter has assigned yet.
Unset == -1

\* No reader or setter has been called yet.
NoRead == [fn |-> "none", value |-> Unset, session |-> Unset]

\* session.get_world_size()
get_world_size == live.world_size

\* session.get_world_rank()
get_world_rank == live.world_rank

\* A freshly constructed shim in a worker; the library's gate starts at 0.
EnvInit ==
    /\ env \in {[cls |-> c, _world_size |-> Unset, _global_rank |-> Unset] :
                    c \in EnvClasses}
    /\ live \in LiveSessions
    /\ rank_zero_only_rank = 0
    /\ last_read = NoRead

\* world_size(): both classes return the session's value.
world_size ==
    /\ last_read' = [fn |-> "world_size", value |-> get_world_size,
                     session |-> live.world_size]
    /\ UNCHANGED <<env, live, rank_zero_only_rank>>

\* global_rank(): both classes return the session's value.
global_rank ==
    /\ last_read' = [fn |-> "global_rank", value |-> get_world_rank,
                     session |-> live.world_rank]
    /\ UNCHANGED <<env, live, rank_zero_only_rank>>

\* set_world_size(size): pass in RayLightningEnvironment; RayEnvironment
\* stores the session's world size in a field of its own.
set_world_size(size) ==
    /\ env' = IF env.cls = "RayEnvironment"
              THEN [env EXCEPT !._world_size = get_world_size]
              ELSE env
    /\ last_read' = [fn |-> "set_world_size", value |-> size,
                     session |-> live.world_size]
    /\ UNCHANGED <<live, rank_zero_only_rank>>

\* set_global_rank(rank): pass in RayLightningEnvironment; RayEnvironment
\* stores the session's rank in a field and assigns the caller's argument
\* to rank_zero_only.rank.
set_global_rank(rank) ==
    /\ env' = IF env.cls = "RayEnvironment"
              THEN [env EXCEPT !._global_rank = get_world_rank]
              ELSE env
    /\ rank_zero_only_rank' = IF env.cls = "RayEnvironment"
                              THEN rank
                              ELSE rank_zero_only_rank
    /\ last_read' = [fn |-> "set_global_rank", value |-> rank,
                     session |-> live.world_rank]
    /\ UNCHANGED live

InitEnv == EnvInit /\ RegisterOff /\ RelayOff /\ CallOff

NextEnv ==
    \/ world_size /\ UNCHANGED <<regVars, relayVars, callVars>>
    \/ global_rank /\ UNCHANGED <<regVars, relayVars, callVars>>
    \/ \E size \in 1..MaxWorld :
          set_world_size(size) /\ UNCHANGED <<regVars, relayVars, callVars>>
    \/ \E rank \in 0..MaxWorld - 1 :
          set_global_rank(rank) /\ UNCHANGED <<regVars, relayVars, callVars>>

SpecEnv == InitEnv /\ [][NextEnv]_vars

\* C11: the shim's setters are no-ops.  After any set_world_size(x) or
\* set_global_rank(y), world_size() and global_rank() still return what the
\* session reports, and no setter changes state a rank or world-size reader
\* depends on; the rank-zero-only gate in particular keeps its value.
C11_SettersAreNoOps ==
    /\ [](last_read.fn \in {"world_size", "global_rank"}
             => last_read.value = last_read.session)
    /\ [][rank_zero_only_rank' = rank_zero_only_rank]_vars

-----------------------------------------------------------------------------
\* Configuration, loading and reporting calls, each a function of its
\* arguments: `call` holds the operation and its arguments, `result` its
\* outcome once the call has run.

\* The call has not run yet.
Pending == [status |-> "pending"]

\* ---- the metrics of a report (RayModelCheckpoint._session_report) ----

MetricsCalls ==
    {[op |-> "metrics", stage |-> s, candidates |-> c] :
        s \in Hooks, c \in MonitorCandidates}

report_metrics ==
    /\ call.op = "metrics"
    /\ result = Pending
    /\ result' = metrics(call.stage, call.candidates)
    /\ UNCHANGED call

\* ---- LightningCheckpoint.get_model ----

\* What model_class can be: a class, or an instantiated object.
ModelClassArgs == {"LightningModule_subclass", "instance"}

\* Contents of the checkpoint directory: names and whether each is a file
\* or a directory.
CheckpointDirs ==
    UNION {[names -> {"file", "dir"}] :
              names \in SUBSET {MODEL_KEY, "preprocessor.pkl"}}

\* Whether the model class's load_from_checkpoint returns or raises.
LoadOutcomes == {"returns", "raises"}

GetModelCalls ==
    {[op |-> "get_model", model_class |-> c, checkpoint_dir |-> d, load |-> l] :
        c \in ModelClassArgs, d \in CheckpointDirs, l \in LoadOutcomes}

\* inspect.isclass: a LightningModule subclass and any other class are
\* classes, an instance is not.
isclass(arg) == arg \in {"LightningModule_subclass", "class"}

\* Variant: the path test always succeeds.
path_exists_always(dir, name) == TRUE

\* os.path.exists(os.path.join(dir, name)): true for a file or a directory.
path_exists(dir, name) == name \in DOMAIN dir

\* get_model(model_class): `load_calls` lists the paths handed to
\* model_class.load_from_checkpoint.
get_model(model_class, checkpoint_dir, load) ==
    IF ~isclass(model_class)
    THEN [status |-> "raised", error |-> "ValueError", load_calls |-> <<>>]
    ELSE IF ~path_exists(checkpoint_dir, MODEL_KEY)
    THEN [status |-> "raised", error |-> "RuntimeError", load_calls |-> <<>>]
    ELSE IF load = "raises"
    THEN [status |-> "raised", error |-> "load_from_checkpoint",
          load_calls |-> <<MODEL_KEY>>]
    ELSE [status |-> "ok", error |-> "none", load_calls |-> <<MODEL_KEY>>]

call_get_model ==
    /\ call.op = "get_model"
    /\ result = Pending
    /\ result' = get_model(call.model_class, call.checkpoint_dir, call.load)
    /\ UNCHANGED call

\* ---- LightningTrainer.__init__ ----

LIGHTNING_MODULE_KEY == "_lightning_module"

LIGHTNING_MODULE_CONFIG_KEY == "_lightning_module_config"

LIGHTNING_TRAINER_CONFIG_KEY == "_lightning_trainer_config"

MODEL_CHECKPOINT_CONFIG == "_model_checkpoint_config"

DDP_STRATEGY_CONFIG_KEY == "_ddp_strategy_config"

LIGHTNING_DATAMODULE_KEY == "_lightning_datamodule"

\* What lightning_module can be: an instance, a class outside the
\* LightningModule hierarchy, or a LightningModule subclass.
LightningModuleArgs == {"instance", "class", "LightningModule_subclass"}

\* The optional arguments that end up in the train-loop config when truthy.
OptionalConfigKeys ==
    {LIGHTNING_MODULE_CONFIG_KEY, LIGHTNING_TRAINER_CONFIG_KEY,
     DDP_STRATEGY_CONFIG_KEY, MODEL_CHECKPOINT_CONFIG, LIGHTNING_DATAMODULE_KEY}

TrainerInitCalls ==
    {[op |-> "LightningTrainer", lightning_module |-> m, given |-> g,
      torch_config |-> t] :
        m \in LightningModuleArgs, g \in SUBSET OptionalConfigKeys, t \in BOOLEAN}

\* Variant: every class passes the subclass test.
issubclass_any_class(arg) == isclass(arg)

\* issubclass(lightning_module, pl.LightningModule)
issubclass_LightningModule(arg) == arg = "LightningModule_subclass"

\* _create_trainer_loop_config: the keys of the config it returns, or the
\* error it raises.
create_trainer_loop_config(lightning_module, given) ==
    IF ~isclass(lightning_module)
    THEN [status |-> "raised", error |-> "ValueError", keys |-> {}]
    ELSE IF ~issubclass_LightningModule(lightning_module)
    THEN [status |-> "raised", error |-> "ValueError", keys |-> {}]
    ELSE [status |-> "ok", error |-> "none",
          keys |-> {LIGHTNING_MODULE_KEY} \cup given]

\* __init__: default the torch config, build the train-loop config, then
\* initialise the base trainer with it.  `steps` lists what ran, in order.
LightningTrainer_init(lightning_module, given, torch_config) ==
    LET pre == IF torch_config THEN <<>> ELSE <<"TorchConfig">>
        cfg == create_trainer_loop_config(lightning_module, given)
    IN  IF cfg.status = "raised"
        THEN [status |-> "raised", error |-> cfg.error,
              steps |-> pre \o <<"_create_trainer_loop_config">>,
              has_config |-> FALSE, train_loop_config |-> {}]
        ELSE [status |-> "ok", error |-> "none",
              steps |-> pre \o <<"_create_trainer_loop_config", "super().__init__">>,
              has_config |-> TRUE, train_loop_config |-> cfg.keys]

call_LightningTrainer ==
    /\ call.op = "LightningTrainer"
    /\ result = Pending
    /\ result' = LightningTrainer_init(call.lightning_module, call.given,
                                       call.torch_config)
    /\ UNCHANGED call

\* ---- prepare_trainer ----

\* Most checkpoint callbacks of a trainer.
MaxCallbacks == 3

\* Base class of each class that appears in a trainer ("object" ends the
\* chain): the Ray classes of lightning_utils.py, the library classes they
\* derive from, and user subclasses.
BaseClass ==
    [RayDDPStrategy |-> "DDPStrategy",
     RayFSDPStrategy |-> "FSDPStrategy",
     RayDeepSpeedStrategy |-> "DeepSpeedStrategy",
     MyRayDDPStrategy |-> "RayDDPStrategy",
     MyRayDeepSpeedStrategy |-> "RayDeepSpeedStrategy",
     DeepSpeedStrategy |-> "DDPStrategy",
     DDPStrategy |-> "ParallelStrategy",
     FSDPStrategy |-> "ParallelStrategy",
     ParallelStrategy |-> "object",
     SingleDeviceStrategy |-> "object",
     RayLightningEnvironment |-> "LightningEnvironment",
     MyRayLightningEnvironment |-> "RayLightningEnvironment",
     RayEnvironment |-> "LightningEnvironment",
     LightningEnvironment |-> "ClusterEnvironment",
     MyClusterEnvironment |-> "ClusterEnvironment",
     ClusterEnvironment |-> "object",
     RayModelCheckpoint |-> "ModelCheckpoint",
     MyRayModelCheckpoint |-> "RayModelCheckpoint",
     ModelCheckpoint |-> "Callback",
     EarlyStopping |-> "Callback",
     LearningRateMonitor |-> "Callback",
     Callback |-> "object",
     PrecisionPlugin |-> "object",
     CheckpointIO |-> "object"]

RECURSIVE isinstance(_, _)
\* isinstance(obj, cls) for an object of class `of`.
isinstance(of, cls) ==
    \/ of = cls
    \/ /\ of \in DOMAIN BaseClass
       /\ isinstance(BaseClass[of], cls)

\* Classes trainer.strategy can be an instance of.
StrategyClasses ==
    {"RayDDPStrategy", "RayFSDPStrategy", "RayDeepSpeedStrategy",
     "MyRayDDPStrategy", "MyRayDeepSpeedStrategy",
     "DDPStrategy", "DeepSpeedStrategy", "SingleDeviceStrategy"}

\* Classes of trainer.strategy.cluster_environment; "None" when unset.
ClusterEnvironmentArgs ==
    {"None", "RayLightningEnvironment", "MyRayLightningEnvironment",
     "LightningEnvironment"}

\* Classes of the entries of trainer.checkpoint_callbacks.
CheckpointCallbackClasses ==
    {"ModelCheckpoint", "RayModelCheckpoint", "MyRayModelCheckpoint"}

SeqsUpTo(S, n) == UNION {[1..k -> S] : k \in 0..n}

Trainers ==
    {[strategy |-> s, cluster_environment |-> e, checkpoint_callbacks |-> cbs] :
        s \in StrategyClasses, e \in ClusterEnvironmentArgs,
        cbs \in SeqsUpTo(CheckpointCallbackClasses, MaxCallbacks)}

PrepareTrainerCalls == {[op |-> "prepare_trainer", trainer |-> t] : t \in Trainers}

\* valid_strategy_class = [RayDDPStrategy, RayFSDPStrategy, RayFSDPStrategy]
valid_strategy_class == <<"RayDDPStrategy", "RayFSDPStrategy", "RayFSDPStrategy">>

\* any(isinstance(trainer.strategy, cls) for cls in valid_strategy_class)
strategy_is_valid(trainer) ==
    \E i \in DOMAIN valid_strategy_class :
        isinstance(trainer.strategy, valid_strategy_class[i])

\* cluster_environment and not isinstance(cluster_environment,
\* RayLightningEnvironment)
cluster_environment_is_invalid(trainer) ==
    /\ trainer.cluster_environment # "None"
    /\ ~isinstance(trainer.cluster_environment, "RayLightningEnvironment")

\* Variant: every checkpoint callback is counted.
all_checkpoint_callbacks(trainer) == trainer.checkpoint_callbacks

\* [cb for cb in trainer.checkpoint_callbacks if isinstance(cb,
\* RayModelCheckpoint)]
ray_checkpoint_callbacks(trainer) ==
    SelectSeq(trainer.checkpoint_callbacks,
              LAMBDA cb : isinstance(cb, "RayModelCheckpoint"))

\* prepare_trainer(trainer): the three checks in order, then the trainer
\* itself is returned.
prepare_trainer(trainer) ==
    IF ~strategy_is_valid(trainer)
    THEN [status |-> "raised", error |-> "strategy"]
    ELSE IF cluster_environment_is_invalid(trainer)
    THEN [status |-> "raised", error |-> "cluster_environment"]
    ELSE IF Len(ray_checkpoint_callbacks(trainer)) > 1
    THEN [status |-> "raised", error |-> "callbacks"]
    ELSE [status |-> "ok", error |-> "none", trainer |-> trainer]

call_prepare_trainer ==
    /\ call.op = "prepare_trainer"
    /\ result = Pending
    /\ result' = prepare_trainer(call.trainer)
    /\ UNCHANGED call

\* ---- RayDataModule: construction, then a request for validation data ----

\* The two RayDataModule classes: _lightning_utils.py and lightning_utils.py.
DataModuleSources == {"_lightning_utils", "lightning_utils"}

ValDataloaderCalls ==
    {[op |-> "val_dataloader", module |-> m, dataset_iter_config |-> c,
      train_dataset |-> t, val_dataset |-> v] :
        m \in DataModuleSources, c \in BOOLEAN, t \in BOOLEAN, v \in BOOLEAN}

\* pl.LightningDataModule.val_dataloader, the hook a data module keeps when
\* it defines none of its own: asked for validation data that was never
\* configured, it raises a configuration error at once.
library_val_dataloader ==
    [status |-> "raised", error |-> "MisconfigurationException", loader |-> "none"]

\* RayDataModule.__init__ of _lightning_utils.py raises when
\* dataset_iter_config is falsy; the one of lightning_utils.py never raises.
init_raises(module, dataset_iter_config) ==
    module = "_lightning_utils" /\ ~dataset_iter_config

\* Variant: the instance always gets a val_dataloader of its own.
has_val_dataloader_always(module, val_dataset) == TRUE

\* Whether the module has a val_dataloader of its own: the class of
\* _lightning_utils.py defines the method; __init__ of lightning_utils.py
\* assigns self.val_dataloader only `if val_dataset`.
has_val_dataloader(module, val_dataset) ==
    module = "_lightning_utils" \/ val_dataset

\* The module's own val_dataloader: with a validation dataset, a loader over
\* it; without, _lightning_utils.py raises RuntimeError and the closure of
\* lightning_utils.py fails its assert.
own_val_dataloader(module, val_dataset) ==
    IF val_dataset
    THEN [status |-> "ok", error |-> "none", loader |-> "val_dataset"]
    ELSE IF module = "_lightning_utils"
    THEN [status |-> "raised", error |-> "RuntimeError", loader |-> "none"]
    ELSE [status |-> "raised", error |-> "AssertionError", loader |-> "none"]

\* RayDataModule(dataset_iter_config, train_dataset, val_dataset)
\* .val_dataloader(): `by` names the class whose code answered, `overridden`
\* is what the library's trainer tests to enable its validation loop.
val_dataloader(module, dataset_iter_config, val_dataset) ==
    IF init_raises(module, dataset_iter_config)
    THEN [status |-> "raised", error |-> "RuntimeError", loader |-> "none",
          by |-> "RayDataModule.__init__", overridden |-> FALSE]
    ELSE IF has_val_dataloader(module, val_dataset)
    THEN LET own == own_val_dataloader(module, val_dataset)
         IN  [status |-> own.status, error |-> own.error, loader |-> own.loader,
              by |-> "RayDataModule", overridden |-> TRUE]
    ELSE [status |-> library_val_dataloader.status,
          error |-> library_val_dataloader.error,
          loader |-> library_val_dataloader.loader,
          by |-> "LightningDataModule", overridden |-> FALSE]

call_val_dataloader ==
    /\ call.op = "val_dataloader"
    /\ result = Pending
    /\ result' = val_dataloader(call.module, call.dataset_iter_config,
                                call.val_dataset)
    /\ UNCHANGED call

\* ---- _lightning_train_loop_per_worker: plugins and callbacks ----

\* Most plugins in a user's trainer config.
MaxPlugins == 2

\* Classes of user-supplied plugins.
PluginClasses ==
    {"MyClusterEnvironment", "RayEnvironment", "PrecisionPlugin", "CheckpointIO"}

\* Classes of user-supplied callbacks.
CallbackClasses ==
    {"ModelCheckpoint", "RayModelCheckpoint", "EarlyStopping", "LearningRateMonitor"}

\* An object of class cls put in the list by the user.
UserObject(cls) == [cls |-> cls, by |-> "user"]

\* An object the train loop constructs itself.
RayObject(cls) == [cls |-> cls, by |-> "ray"]

\* What a key of the trainer config can hold: nothing (no such key), a list
\* of objects, None, or a single object that is not a list.
ConfigLists(classes, n) ==
    {[present |-> FALSE, is_list |-> TRUE, items |-> <<>>],
     [present |-> TRUE, is_list |-> FALSE, items |-> <<>>]}
        \cup {[present |-> TRUE, is_list |-> TRUE,
               items |-> [i \in DOMAIN s |-> UserObject(s[i])]] :
                 s \in SeqsUpTo(classes, n)}
        \cup {[present |-> TRUE, is_list |-> FALSE, items |-> <<UserObject(c)>>] :
                 c \in classes}

TrainLoopCalls ==
    {[op |-> "train_loop_per_worker", plugins |-> ps, callbacks |-> cbs] :
        ps \in ConfigLists(PluginClasses, MaxPlugins),
        cbs \in ConfigLists(CallbackClasses, MaxCallbacks)}

\* trainer_config.get(key, [])
config_get(entry) ==
    IF entry.present THEN entry ELSE [present |-> TRUE, is_list |-> TRUE, items |-> <<>>]

\* Iterating over None or over a single plugin or callback raises TypeError.
iteration_raises(value) == ~value.is_list

\* Variant: only direct instances of ClusterEnvironment are removed.
keep_plugin_unless_exact(plugin) == plugin.cls # "ClusterEnvironment"

\* not isinstance(plugin, ClusterEnvironment)
keep_plugin(plugin) == ~isinstance(plugin.cls, "ClusterEnvironment")

\* not isinstance(callback, ModelCheckpoint)
keep_callback(callback) == ~isinstance(callback.cls, "ModelCheckpoint")

\* The trainer config the loop hands to pl.Trainer: plugins without cluster
\* environments plus a new RayEnvironment, a new RayDDPStrategy, callbacks
\* without ModelCheckpoints plus a new RayModelCheckpoint.
lightning_train_loop_per_worker(plugins, callbacks) ==
    IF iteration_raises(config_get(plugins))
    THEN [status |-> "raised", error |-> "TypeError", at |-> "plugins"]
    ELSE IF iteration_raises(config_get(callbacks))
    THEN [status |-> "raised", error |-> "TypeError", at |-> "callbacks"]
    ELSE [status |-> "ok",
          plugins |-> Append(SelectSeq(config_get(plugins).items, keep_plugin),
                             RayObject("RayEnvironment")),
          strategy |-> RayObject("RayDDPStrategy"),
          callbacks |-> Append(SelectSeq(config_get(callbacks).items, keep_callback),
                               RayObject("RayModelCheckpoint"))]

call_train_loop_per_worker ==
    /\ call.op = "train_loop_per_worker"
    /\ result = Pending
    /\ result' = lightning_train_loop_per_worker(call.plugins, call.callbacks)
    /\ UNCHANGED call

\* ---- all calls ----

Calls == MetricsCalls \cup GetModelCalls \cup TrainerInitCalls \cup PrepareTrainerCalls \cup ValDataloaderCalls \cup TrainLoopCalls

CallInit ==
    /\ call \in Calls
    /\ result = Pending

InitCalls == CallInit /\ RegisterOff /\ RelayOff /\ EnvOff

NextCalls ==
    \/ report_metrics /\ UNCHANGED <<regVars, relayVars, envVars>>
    \/ call_get_model /\ UNCHANGED <<regVars, relayVars, envVars>>
    \/ call_LightningTrainer /\ UNCHANGED <<regVars, relayVars, envVars>>
    \/ call_prepare_trainer /\ UNCHANGED <<regVars, relayVars, envVars>>
    \/ call_val_dataloader /\ UNCHANGED <<regVars, relayVars, envVars>>
    \/ call_train_loop_per_worker /\ UNCHANGED <<regVars, relayVars, envVars>>

SpecCalls == InitCalls /\ [][NextCalls]_vars

\* ---- claims about calls ----

\* A value that is a number: a single-element tensor or a plain number.
IsNumeric(v) == v.type \in {"Tensor", "float"} /\ v.numel = 1

\* C12: the reported metrics dict holds the plain number of every
\* tensor-scalar candidate, every non-scalar candidate is absent from it and
\* does not make the report fail, and no numeric metric is lost.
C12_MetricsCoerced ==
    (call.op = "metrics" /\ result # Pending) =>
        /\ result.status = "ok"
        /\ \A k \in DOMAIN call.candidates :
              IF IsNumeric(call.candidates[k])
              THEN /\ k \in DOMAIN result.metrics
                   /\ result.metrics[k] = call.candidates[k].item
              ELSE k \notin DOMAIN result.metrics

\* C13: get_model with a class on a checkpoint directory that has nothing
\* under the model key raises a runtime error and never calls
\* load_from_checkpoint; when the entry is there, get_model raises nothing of
\* its own and calls load_from_checkpoint exactly once, on that path.
C13_MissingModelFileRaises ==
    (call.op = "get_model" /\ result # Pending /\ call.model_class = "LightningModule_subclass") =>
        IF MODEL_KEY \in DOMAIN call.checkpoint_dir
        THEN /\ result.error \notin {"ValueError", "RuntimeError"}
             /\ result.load_calls = <<MODEL_KEY>>
        ELSE /\ result.status = "raised"
             /\ result.error = "RuntimeError"
             /\ result.load_calls = <<>>

C13_Witness ==
    /\ call.op = "get_model"
    /\ call.model_class = "LightningModule_subclass"
    /\ DOMAIN call.checkpoint_dir = {"preprocessor.pkl"}
    /\ result # Pending
    /\ result.error = "RuntimeError"

\* C14: constructing LightningTrainer with a lightning_module that is not a
\* class, or is a class outside the LightningModule hierarchy, raises a
\* configuration error before the base trainer is initialised (and so before
\* any worker is started), and no train-loop config is produced.
C14_BadModuleRejectedEarly ==
    (call.op = "LightningTrainer" /\ result # Pending
        /\ call.lightning_module \in {"instance", "class"}) =>
        /\ result.status = "raised"
        /\ result.error = "ValueError"
        /\ \A i \in DOMAIN result.steps : result.steps[i] # "super().__init__"
        /\ ~result.has_config

C14_Witness ==
    /\ call.op = "LightningTrainer"
    /\ call.lightning_module = "class"
    /\ result # Pending
    /\ result.status = "raised"
    /\ Len(result.steps) > 0

\* The three strategy classes the error message and the documentation name.
RayStrategyClasses == {"RayDDPStrategy", "RayFSDPStrategy", "RayDeepSpeedStrategy"}

\* C15: prepare_trainer raises no invalid-strategy error when the strategy is
\* an instance of RayDDPStrategy, RayFSDPStrategy or RayDeepSpeedStrategy or
\* of a subclass of one of them, and raises it for every other strategy.
C15_StrategyCheck ==
    (call.op = "prepare_trainer" /\ result # Pending) =>
        ((\E cls \in RayStrategyClasses : isinstance(call.trainer.strategy, cls))
            <=> result.error # "strategy")

\* Number of RayModelCheckpoint instances among the checkpoint callbacks.
RayCallbackCount(trainer) ==
    Cardinality({i \in DOMAIN trainer.checkpoint_callbacks :
                    isinstance(trainer.checkpoint_callbacks[i], "RayModelCheckpoint")})

\* C16: prepare_trainer raises whenever the trainer has more than one
\* RayModelCheckpoint callback, never raises the callback error with zero or
\* one of them however many plain ModelCheckpoint callbacks there are, and
\* when no check fails it returns the trainer it was given, unmodified.
C16_AtMostOneRayCheckpoint ==
    (call.op = "prepare_trainer" /\ result # Pending) =>
        /\ RayCallbackCount(call.trainer) > 1 => result.status = "raised"
        /\ RayCallbackCount(call.trainer) <= 1 => result.error # "callbacks"
        /\ result.status = "ok" => result.trainer = call.trainer
        /\ (strategy_is_valid(call.trainer)
               /\ ~cluster_environment_is_invalid(call.trainer))
             => (result.status = "raised" <=> RayCallbackCount(call.trainer) > 1)

C16_Witness ==
    /\ call.op = "prepare_trainer"
    /\ result # Pending
    /\ result.error = "callbacks"
    /\ RayCallbackCount(call.trainer) = 2
    /\ Len(call.trainer.checkpoint_callbacks) = 3

\* A request for validation data that reached val_dataloader on a module
\* built without a validation dataset.
ValRequestedWithoutDataset ==
    /\ call.op = "val_dataloader"
    /\ result # Pending
    /\ ~call.val_dataset
    /\ result.by # "RayDataModule.__init__"

\* The errors that report a wrong configuration.
ConfigurationErrors == {"RuntimeError", "MisconfigurationException"}

\* C17: requesting validation data from a Ray data module built without a
\* validation dataset is raised at once as a configuration error.  The
\* request never yields a loader, empty or over the training data; the data
\* module of _lightning_utils.py raises the error itself, and the data module
\* of lightning_utils.py defines no val_dataloader in that case, so the
\* library's trainer has no validation loop to enter without data.
C17_MissingValDataset ==
    ValRequestedWithoutDataset =>
        /\ result.status = "raised"
        /\ result.error \in ConfigurationErrors
        /\ result.loader = "none"
        /\ IF call.module = "_lightning_utils"
           THEN result.by = "RayDataModule" /\ result.error = "RuntimeError"
           ELSE ~result.overridden

\* The data module of _lightning_utils.py, built with an iteration config
\* and a training dataset only, asked for validation data.
C17_Witness ==
    /\ ValRequestedWithoutDataset
    /\ call.module = "_lightning_utils"
    /\ call.train_dataset
    /\ result.status = "raised"
    /\ result.by = "RayDataModule"

-----------------------------------------------------------------------------
\* Claims about the relay's pending flag.

\* The events a process has completed.
Completed(p) == SubSeq(schedule, 1, pos[p])

\* C18: the relay deduplicates reports.  A process that has completed a hook
\* has its pending flag cleared; between events the number of reports it has
\* made is exactly one per hook that was the first hook after a write (one
\* write followed by several hooks: one report; several writes before a
\* hook: one report), and so never more than the number of writes.
C18_ReportsDeduplicated ==
    \A p \in Procs :
        pc[p] = "idle" =>
            LET expected == ExpectedReports(Completed(p), FALSE) IN
            /\ (pos[p] > 0 /\ schedule[pos[p]] \in Hooks)
                  => is_checkpoint_step[p] = FALSE
            /\ report_count[p] = expected
            /\ expected <= SavesDone(p)

\* One write followed by two hooks, both completed, with one report made.
C18_Witness ==
    \E p \in Procs :
        /\ Len(schedule) = 4
        /\ schedule[2] = "save"
        /\ schedule[3] \in Hooks
        /\ schedule[4] \in Hooks
        /\ pos[p] = 4
        /\ pc[p] = "idle"
        /\ report_count[p] = 1

-----------------------------------------------------------------------------
\* Liveness of the relay.  Each worker process runs on its own and keeps
\* taking its next step when it has one; exceptions may or may not happen.

\* The next non-exception step of process p.
RelayProgressOf(p) ==
    /\ p \in Procs
    /\ \/ setup(p)
       \/ save_last_checkpoint(p)
       \/ on_train_batch_end(p)
       \/ on_train_epoch_end(p)
       \/ on_validation_end(p)
       \/ barrier_pass(p)
       \/ copy_and_report(p)
       \/ report_returns(p)
    /\ UNCHANGED <<regVars, envVars, callVars>>

SpecRelayFair ==
    SpecRelay /\ \A p \in 1..MaxRanks : WF_vars(RelayProgressOf(p))

\* Rank p exists and waits at the barrier of a hook.
AtBarrier(p) == IF p \in Procs THEN pc[p] = "barrier" ELSE FALSE

\* Rank p is between events and has made a report for every barrier it
\* entered.
ReportedAndIdle(p) ==
    IF p \in Procs
    THEN pc[p] = "idle" /\ report_count[p] = barrier_count[p]
    ELSE FALSE

SomeRaised == ~NoneRaised

\* C19: with every rank seeing the same events and the workers scheduled
\* fairly, a rank waiting at the barrier of a hook eventually passes it,
\* makes the report of that hook and is idle again, unless some rank raised;
\* so no group of ranks stays blocked at the barrier forever.
C19_BarrierEventuallyPassed ==
    \A p \in 1..MaxRanks :
        AtBarrier(p) ~> (SomeRaised \/ ReportedAndIdle(p))

\* Two ranks, one waiting at the barrier while the other has not yet reached
\* the hook.
C19_Witness ==
    /\ Cardinality(Procs) = 2
    /\ \E p, q \in Procs :
          /\ pc[p] = "barrier"
          /\ pc[q] = "idle"
          /\ pos[q] < pos[p]

\* The positions of a list holding an instance of class cls.
InstancesOf(items, cls) == {i \in DOMAIN items : isinstance(items[i].cls, cls)}

IsUserObject(obj) == obj.by = "user"

IsNoClusterEnvironment(obj) == ~isinstance(obj.cls, "ClusterEnvironment")

IsNoModelCheckpoint(obj) == ~isinstance(obj.cls, "ModelCheckpoint")

====
